---- MODULE Spec2Model ----
(***************************************************************************)
(* DexPack (src/dexpack.py): the commands of the package installer cog     *)
(* (view, install, uninstall, verify, update-dp, reload-dp) and the state  *)
(* they share.                                                             *)
(*                                                                         *)
(* Command handlers are coroutines of one event loop: a handler runs       *)
(* without interruption from one `await` that really suspends (ctx.send)   *)
(* to the next.  requests.get, open/write, mkdir and rmtree are blocking   *)
(* calls, so they are never a point where another handler runs.  Each      *)
(* action below is one such uninterrupted stretch of a handler.            *)
(*                                                                         *)
(* Text (command arguments, lines of verified.txt) is a sequence of        *)
(* tokens; "/" and " : " and the GitHub prefix are tokens of their own, so *)
(* startswith / replace / split are computed, not assumed.                 *)
(*                                                                         *)
(* load_extension (line 311) and reload_extension (line 313) run the setup  *)
(* coroutine of the downloaded package, which may suspend: they are points *)
(* where other handlers run as well.                                       *)
(*                                                                         *)
(* Environment.  `script_settings` is read at lines 85 and 231 and bound   *)
(* nowhere in the file: as written every read raises NameError.  Init      *)
(* admits that and the hosts that bind the name to a settings object with  *)
(* the two fields the file reads.  verify_packages (lines 41-55) reads the *)
(* unbound name `r` at line 46 and raises, so the registry is the empty    *)
(* dict of line 33 in every run, and the import of the module stops at     *)
(* line 358 before `setup` is bound: the bot's own load of the module      *)
(* never registers the cog (cog_added false, no command can run); the      *)
(* commands run only where a host registers the class itself.              *)
(* load_extension of a module that is not loaded may succeed or raise;     *)
(* unload_extension is handed a slash-separated path (line 175), never the *)
(* dotted name under which line 311 loaded the module.                     *)
(***************************************************************************)
EXTENDS Integers, Sequences, FiniteSets, TLC

VARIABLES
    verified,           \* module global `verified` (the confirmation flag)
    verified_packages,  \* module global `verified_packages` (the registry)
    script_settings,    \* the global name `script_settings`, bound or not
    cog_added,          \* the DexPack cog is registered with the bot
    remote_status,      \* status code the content API answers per listed file
    data,               \* {dir_type}/data/<key>.yml : manifest files
    packages,           \* {dir_type}/packages/<name>/ : package directories
    loaded,             \* extensions loaded in the bot
    pc,                 \* per invocation slot: where its handler is suspended
    cmd,                \* per slot: the command it runs / ran last
    package,            \* per slot: the command's `package` argument
    package_info,       \* per slot: local `package_info` after line 261
    link,               \* per slot: local `link` (owner, repository)
    idx,                \* per slot: position of the `for file in ...` loop
    trace,              \* per slot: calls made by the current / last command
    outcome,            \* per slot: how the current / last command ended
    flag_in,            \* per slot: value of `verified` when invoked
    observed,           \* per slot: which verify's confirmation the gate saw
    seq,                \* per slot: ordinal of the command
    solo,               \* per slot: no other handler was suspended at start
    fresh,              \* per slot: package had no manifest, dir or module
    snap,               \* per slot: package's disk state when install ended
    ncmds,              \* commands invoked so far
    confirmed_at        \* ordinal of the latest verify command (0: none)

vars == <<verified, verified_packages, script_settings, cog_added, remote_status, data,
          packages, loaded, pc, cmd, package, package_info, link, idx, trace,
          outcome, flag_in, observed, seq, solo, fresh, snap, ncmds,
          confirmed_at>>

----------------------------------------------------------------------------
(* Bounds *)

MaxCommands == 3

Slots == {"s1", "s2"}

----------------------------------------------------------------------------
(* Constants of the program and of its environment *)

dir_type == "ballsdex"

PREFIX == "https://github.com/"

OK == 200

NOT_FOUND == 404

StatusCodes == {OK, NOT_FOUND}

EmptyFs == [k \in {} |-> <<>>]

NoInfo == [name |-> "", author |-> "", files |-> <<>>, supported |-> {}]

NoLink == <<"", "">>

NoSnap == [taken |-> FALSE, manifest |-> NoInfo, files |-> EmptyFs]

----------------------------------------------------------------------------
(* Text helpers: str.startswith, str.replace(PREFIX, ""), str.split, join *)

StartsWith(s, tok) == Len(s) > 0 /\ s[1] = tok

RECURSIVE Remove(_, _)
Remove(s, tok) ==
    IF s = <<>> THEN <<>>
    ELSE IF Head(s) = tok THEN Remove(Tail(s), tok)
    ELSE <<Head(s)>> \o Remove(Tail(s), tok)

RECURSIVE Split(_, _)
Split(s, sep) ==
    IF s = <<>> THEN <<"">>
    ELSE IF Head(s) = sep THEN <<"">> \o Split(Tail(s), sep)
    ELSE LET r == Split(Tail(s), sep) IN <<Head(s) \o Head(r)>> \o Tail(r)

RECURSIVE Join(_)
Join(s) == IF s = <<>> THEN "" ELSE Head(s) \o Join(Tail(s))

----------------------------------------------------------------------------
(* The registry: verify_packages, lines 41-55 *)

\* the text of verified.txt that the request of lines 42-44 is answered with

VerifiedTxt ==
    << <<"#", " verified packages">>,
       <<"widgets", " : ", "dotsian", "/", "widgets">>,
       <<>> >>

EmptyRegistry == [k \in {} |-> ""]

\* values of the name `script_settings`: not bound, or bound to an object
\* with the fields safe_mode (line 231) and outdated_warnings (line 85)
Unbound == [bound |-> FALSE, safe_mode |-> FALSE, outdated_warnings |-> FALSE]

Settings ==
    {Unbound} \cup
    [bound : {TRUE}, safe_mode : BOOLEAN, outdated_warnings : BOOLEAN]

\* lines 41-55 run on the registry `reg`: the request is made, then line 46
\* reads the unbound name `r`; the loop of lines 50-55 is never reached
verify_packages(reg) ==
    [raised |-> "NameError", verified_packages |-> reg]

----------------------------------------------------------------------------
(* The remote content API, GET /repos/{owner}/{repo}/contents/{path} *)

WidgetsManifest ==
    [name |-> "widgets", author |-> "acme", files |-> <<"a.py", "b.py">>,
     supported |-> {"ballsdex", "carfigures"}]

GadgetsManifest ==
    [name |-> "gadgets", author |-> "acme", files |-> <<"g.py">>,
     supported |-> {"carfigures"}]

ListedFiles == {"a.py", "b.py"}

B64(payload) == [b64 |-> payload]

b64decode(content) == content.b64

\* the answer to `request_get(f"{link}package.yml")`
GetManifest(lnk) ==
    IF lnk = <<"acme", "widgets">>
    THEN [status_code |-> OK, content |-> B64(WidgetsManifest)]
    ELSE IF lnk = <<"acme", "gadgets">>
    THEN [status_code |-> OK, content |-> B64(GadgetsManifest)]
    ELSE [status_code |-> NOT_FOUND, content |-> B64(NoInfo)]

\* the answer to `request_get(f"{link}{file_path}")`
GetFile(lnk, name, file, status) ==
    IF file \in DOMAIN status
    THEN [status_code |-> status[file],
          content |-> B64(<<lnk[1], lnk[2], name, file>>)]
    ELSE [status_code |-> NOT_FOUND, content |-> B64(<<>>)]

----------------------------------------------------------------------------
(* Calls a handler makes, as recorded in `trace` *)

Ev(op, path, code) == [op |-> op, path |-> path, code |-> code]

ManifestUrl(lnk) == <<lnk[1], lnk[2], "package.yml">>

\* the name handed to load_extension / reload_extension (dots) and to
\* unload_extension (slashes)
ExtensionName(sep, name) == dir_type \o sep \o "packages" \o sep \o name

----------------------------------------------------------------------------
(* The arguments the owner may type *)

UrlWidgets == <<PREFIX, "acme", "/", "widgets">>

UrlGadgets == <<PREFIX, "acme", "/", "gadgets">>

UrlMissing == <<PREFIX, "acme", "/", "missing">>

UrlOwnerOnly == <<PREFIX, "acme">>

BareWidgets == <<"widgets">>

InstallArgs ==
    {UrlWidgets, UrlGadgets, UrlMissing, UrlOwnerOnly, BareWidgets}

UninstallArgs == {<<"widgets">>}

----------------------------------------------------------------------------
(* install, lines 207-246: reference resolution and the trust gate *)

\* a URL whose repository name verified.txt lists, sent to the repository
\* listed there
ParseReferenceLookup(arg, reg) ==
    IF StartsWith(arg, PREFIX)
    THEN LET info == Split(Remove(arg, PREFIX), "/")
         IN [exists |-> TRUE, is_verified |-> FALSE,
             package_info |->
                 IF Len(info) >= 2 /\ info[2] = "widgets"
                 THEN <<"dotsian", "widgets">>
                 ELSE info]
    ELSE LET found_package ==
                 IF Join(arg) \in DOMAIN reg
                 THEN << <<Join(arg), reg[Join(arg)]>> >>
                 ELSE <<>>
         IN [exists |-> Len(found_package) > 0,
             is_verified |-> Len(found_package) > 0,
             package_info |-> found_package]

\* lines 211-227
ParseReference(arg, reg) ==
    IF StartsWith(arg, PREFIX)
    THEN [exists |-> TRUE, is_verified |-> FALSE,
          package_info |-> Split(Remove(arg, PREFIX), "/")]
    ELSE LET found_package ==
                 IF Join(arg) \in DOMAIN reg
                 THEN << <<Join(arg), reg[Join(arg)]>> >>
                 ELSE <<>>
         IN [exists |-> Len(found_package) > 0,
             is_verified |-> Len(found_package) > 0,
             package_info |-> found_package]

\* line 229: `package_info[1]` raises IndexError on a list shorter than two
HasIndexOne(info) == Len(info) >= 2

\* lines 242-243
Resolve(info, is_verified, reg) ==
    IF is_verified THEN [info EXCEPT ![2] = reg[info[2]]] ELSE info

\* the gate without the test of the safe-mode setting
GateBlocksAlways(safe, ver, is_verified) == ~ver /\ ~is_verified

\* the gate with the test of `verified` inverted
GateBlocksInverted(safe, ver, is_verified) == safe /\ ver /\ ~is_verified

\* line 231
GateBlocks(safe, ver, is_verified) == safe /\ ~ver /\ ~is_verified

\* the flag left set after the gate
ConsumeSticky(ver) == ver

\* the flag reset only when it was already false
ConsumeInverted(ver) == IF ~ver THEN FALSE ELSE ver

\* lines 245-246
Consume(ver) == IF ver THEN FALSE ELSE ver

\* the status test always passing
FetchSucceededAlways(request) == TRUE

\* line 254
FetchSucceeded(request) == request.status_code = OK

\* the platform check always passing
SupportsAny(info) == TRUE

\* line 263
Supports(info) == dir_type \in info.supported

\* what `fresh` records: nothing of the package is on disk or loaded
IsClean(key, name) ==
    /\ key \notin DOMAIN data
    /\ name \notin DOMAIN packages
    /\ ExtensionName(".", name) \notin loaded

----------------------------------------------------------------------------
(* Bookkeeping shared by the handlers *)

Begin(p, c, arg) ==
    /\ cog_added
    /\ pc[p] = "idle"
    /\ ncmds < MaxCommands
    /\ ncmds' = ncmds + 1
    /\ cmd' = [cmd EXCEPT ![p] = c]
    /\ package' = [package EXCEPT ![p] = arg]
    /\ seq' = [seq EXCEPT ![p] = ncmds + 1]
    /\ solo' = [solo EXCEPT ![p] = \A q \in Slots \ {p} : pc[q] = "idle"]
    /\ snap' = [snap EXCEPT ![p] = NoSnap]
    /\ flag_in' = [flag_in EXCEPT ![p] = verified]

\* the handler returns or raises before its first suspension
EndAtOnce(p, result, events) ==
    /\ pc' = pc
    /\ outcome' = [outcome EXCEPT ![p] = result]
    /\ trace' = [trace EXCEPT ![p] = events]
    /\ package_info' = [package_info EXCEPT ![p] = NoInfo]
    /\ link' = [link EXCEPT ![p] = NoLink]
    /\ idx' = [idx EXCEPT ![p] = 1]
    /\ fresh' = [fresh EXCEPT ![p] = FALSE]

----------------------------------------------------------------------------
(* install, lines 207-289: up to the first suspension *)

\* the caution sent only after the manifest was requested and written
CautionAfterFetch(p, info) ==
    LET lnk == <<info[1], info[2]>>
        request == GetManifest(lnk)
    IN
    /\ EndAtOnce(p, "blocked",
                 <<Ev("get", ManifestUrl(lnk), request.status_code),
                   Ev("send", <<"caution">>, 0)>>)
    /\ observed' = [observed EXCEPT ![p] = 0]
    /\ data' = IF FetchSucceeded(request)
               THEN (info[2] :> b64decode(request.content)) @@ data
               ELSE data
    /\ UNCHANGED verified

\* lines 232-240: the caution message and the return
Caution(p, info) ==
    /\ EndAtOnce(p, "blocked", <<Ev("send", <<"caution">>, 0)>>)
    /\ observed' = [observed EXCEPT ![p] = 0]
    /\ UNCHANGED <<verified, data>>

InstallStart(p, arg) ==
    /\ Begin(p, "install", arg)
    /\ UNCHANGED <<verified_packages, script_settings, cog_added, remote_status, packages,
                   loaded, confirmed_at>>
    /\ LET ref == ParseReference(arg, verified_packages)
           parsed == ref.package_info
           info == Resolve(parsed, ref.is_verified, verified_packages)
       IN
       IF ~ref.exists
       THEN \* lines 222-224
            /\ EndAtOnce(p, "invalid", <<Ev("send", <<"invalid_link">>, 0)>>)
            /\ observed' = [observed EXCEPT ![p] = 0]
            /\ UNCHANGED <<verified, data>>
       ELSE IF ~HasIndexOne(parsed)
       THEN \* line 229 raises
            /\ EndAtOnce(p, "IndexError", <<>>)
            /\ observed' = [observed EXCEPT ![p] = 0]
            /\ UNCHANGED <<verified, data>>
       ELSE IF ~script_settings.bound
       THEN \* line 231 raises
            /\ EndAtOnce(p, "NameError", <<>>)
            /\ observed' = [observed EXCEPT ![p] = 0]
            /\ UNCHANGED <<verified, data>>
       ELSE IF GateBlocks(script_settings.safe_mode, verified, ref.is_verified)
       THEN Caution(p, parsed)
       ELSE \* lines 242-289
            LET lnk == <<info[1], info[2]>>
                request == GetManifest(lnk)
                get == Ev("get", ManifestUrl(lnk), request.status_code)
                content == b64decode(request.content)
                write == Ev("write", <<"data", info[2]>>, 0)
            IN
            /\ verified' = Consume(verified)
            /\ observed' = [observed EXCEPT
                              ![p] = IF verified THEN confirmed_at ELSE 0]
            /\ IF FetchSucceeded(request)
               THEN /\ data' = (info[2] :> content) @@ data
                    /\ IF ~Supports(content)
                       THEN \* lines 263-265
                            EndAtOnce(p, "unsupported",
                                      <<get, write,
                                        Ev("send", <<"unsupported">>, 0)>>)
                       ELSE \* line 282: suspended on the "Installing" embed
                            /\ pc' = [pc EXCEPT ![p] = "installing"]
                            /\ outcome' = [outcome EXCEPT ![p] = "none"]
                            /\ trace' = [trace EXCEPT ![p] =
                                   <<get, write,
                                     Ev("send", <<"installing">>, 0)>>]
                            /\ package_info' =
                                   [package_info EXCEPT ![p] = content]
                            /\ link' = [link EXCEPT ![p] = lnk]
                            /\ idx' = [idx EXCEPT ![p] = 1]
                            /\ fresh' = [fresh EXCEPT ![p] =
                                   IsClean(info[2], content.name)]
               ELSE \* lines 284-289
                    /\ EndAtOnce(p, "fetch_failed",
                                 <<get, Ev("send", <<"fetch_failed">>,
                                           request.status_code)>>)
                    /\ UNCHANGED data

----------------------------------------------------------------------------
(* install, lines 291-325: directory, file loop, activation *)

\* line 292: what os.mkdir raises
MkDirError(fs, name) ==
    IF name \in DOMAIN fs THEN "FileExistsError" ELSE "none"

\* the with-block without `suppress`
EscapesUnsuppressed(err) == err # "none"

\* line 291: `suppress(FileExistsError)` lets any other error through
Escapes(err) == err \notin {"none", "FileExistsError"}

\* lines 291-292: the directory tree after the with-block
MkDir(fs, name) ==
    IF name \in DOMAIN fs THEN fs ELSE (name :> EmptyFs) @@ fs

\* the loop left at the first failed download (`break` after the report)
RECURSIVE RunLoopBreak(_, _, _, _, _)
RunLoopBreak(i, info, lnk, status, fs) ==
    IF i > Len(info.files)
    THEN [idx |-> i, fs |-> fs, events |-> <<>>, stop |-> "end"]
    ELSE LET file == info.files[i]
             request_content == GetFile(lnk, info.name, file, status)
             get == Ev("get", <<lnk[1], lnk[2], info.name, file>>,
                       request_content.status_code)
         IN
         IF request_content.status_code = OK
         THEN IF info.name \notin DOMAIN fs
              THEN [idx |-> i, fs |-> fs, events |-> <<get>>,
                    stop |-> "FileNotFoundError"]
              ELSE LET content == b64decode(request_content.content)
                       dir == (file :> content) @@ fs[info.name]
                       rest == RunLoopBreak(i + 1, info, lnk, status,
                                            [fs EXCEPT ![info.name] = dir])
                   IN [rest EXCEPT !.events =
                         <<get, Ev("write", <<"packages", info.name, file>>,
                                   0)>> \o @]
         ELSE [idx |-> Len(info.files) + 1, fs |-> fs,
               events |-> <<get, Ev("send", <<"file_failed", file>>,
                                    request_content.status_code)>>,
               stop |-> "end"]

\* lines 294-308, from position i until a download fails (the handler then
\* suspends on the report) or the list is exhausted; open() raises
\* FileNotFoundError when the package directory is gone
RECURSIVE RunLoop(_, _, _, _, _)
RunLoop(i, info, lnk, status, fs) ==
    IF i > Len(info.files)
    THEN [idx |-> i, fs |-> fs, events |-> <<>>, stop |-> "end"]
    ELSE LET file == info.files[i]
             request_content == GetFile(lnk, info.name, file, status)
             get == Ev("get", <<lnk[1], lnk[2], info.name, file>>,
                       request_content.status_code)
         IN
         IF request_content.status_code = OK
         THEN IF info.name \notin DOMAIN fs
              THEN [idx |-> i, fs |-> fs, events |-> <<get>>,
                    stop |-> "FileNotFoundError"]
              ELSE LET content == b64decode(request_content.content)
                       dir == (file :> content) @@ fs[info.name]
                       rest == RunLoop(i + 1, info, lnk, status,
                                       [fs EXCEPT ![info.name] = dir])
                   IN [rest EXCEPT !.events =
                         <<get, Ev("write", <<"packages", info.name, file>>,
                                   0)>> \o @]
         ELSE [idx |-> i + 1, fs |-> fs,
               events |-> <<get, Ev("send", <<"file_failed", file>>,
                                    request_content.status_code)>>,
               stop |-> "failed"]

\* lines 310-313, up to the suspension.  `ld` is the set of loaded
\* extensions.  load_extension raises ExtensionAlreadyLoaded before it
\* awaits anything; reload_extension takes the extension out of the bot's
\* table before it runs the module's setup.  Codes of load: 0 loaded,
\* 1 ExtensionAlreadyLoaded, 2 another error; of reload: 0 done, 2 error.
BeginActivationReloads(ext, ld) ==
    [pc |-> "reload", loaded |-> ld \ {ext}, events |-> <<>>]

BeginActivation(ext, ld) ==
    IF ext \in ld
    THEN [pc |-> "reload", loaded |-> ld \ {ext},
          events |-> <<Ev("load", <<ext>>, 1)>>]
    ELSE [pc |-> "load", loaded |-> ld, events |-> <<>>]

\* lines 311-325, from the suspension on.  `ok` says whether the module's
\* setup ends without error.  A failed load leaves the extension out of the
\* table, a failed reload puts the old one back.
EndActivation(at, ext, ld, ok) ==
    IF at = "load"
    THEN IF ok
         THEN [loaded |-> ld \cup {ext}, outcome |-> "installed",
               events |-> <<Ev("load", <<ext>>, 0),
                            Ev("edit", <<"installed">>, 0)>>]
         ELSE [loaded |-> ld \ {ext}, outcome |-> "ExtensionFailed",
               events |-> <<Ev("load", <<ext>>, 2)>>]
    ELSE IF ok
    THEN [loaded |-> ld \cup {ext}, outcome |-> "installed",
          events |-> <<Ev("reload", <<ext>>, 0),
                       Ev("edit", <<"installed">>, 0)>>]
    ELSE [loaded |-> ld \cup {ext}, outcome |-> "ExtensionFailed",
          events |-> <<Ev("reload", <<ext>>, 2)>>]

\* what `snap` records when an install ends with its success message
TakeSnap(p, fs) ==
    IF solo[p] /\ fresh[p] /\ package_info[p].name \in DOMAIN fs
    THEN [taken |-> TRUE, manifest |-> data[link[p][2]],
          files |-> fs[package_info[p].name]]
    ELSE NoSnap

\* the handler resumes with the directory tree `fs` and runs to its next
\* suspension or to its end (lines 294-313)
Resume(p, fs, first) ==
    LET info == package_info[p]
        r == RunLoop(idx[p], info, link[p], remote_status, fs)
        ext == ExtensionName(".", info.name)
        sofar == trace[p] \o first \o r.events
    IN
    /\ packages' = r.fs
    /\ idx' = [idx EXCEPT ![p] = r.idx]
    /\ IF r.stop = "failed"
       THEN \* line 304: suspended on the failure report
            /\ pc' = [pc EXCEPT ![p] = "file_report"]
            /\ trace' = [trace EXCEPT ![p] = sofar]
            /\ UNCHANGED <<loaded, outcome, snap>>
       ELSE IF r.stop = "FileNotFoundError"
       THEN \* line 301 raises
            /\ pc' = [pc EXCEPT ![p] = "idle"]
            /\ trace' = [trace EXCEPT ![p] = sofar]
            /\ outcome' = [outcome EXCEPT ![p] = "FileNotFoundError"]
            /\ UNCHANGED <<loaded, snap>>
       ELSE \* lines 310-313: suspended inside load or reload
            LET a == BeginActivation(ext, loaded) IN
            /\ pc' = [pc EXCEPT ![p] = a.pc]
            /\ loaded' = a.loaded
            /\ trace' = [trace EXCEPT ![p] = sofar \o a.events]
            /\ UNCHANGED <<outcome, snap>>
    /\ UNCHANGED <<verified, verified_packages, script_settings, cog_added, remote_status,
                   data, cmd, package, package_info, link, flag_in, observed,
                   seq, solo, fresh, ncmds, confirmed_at>>

\* resumes after line 282
InstallFiles(p) ==
    /\ pc[p] = "installing"
    /\ IF Escapes(MkDirError(packages, package_info[p].name))
       THEN /\ pc' = [pc EXCEPT ![p] = "idle"]
            /\ outcome' = [outcome EXCEPT ![p] =
                   MkDirError(packages, package_info[p].name)]
            /\ trace' = [trace EXCEPT ![p] = @ \o
                   <<Ev("mkdir", <<"packages", package_info[p].name>>, 1)>>]
            /\ UNCHANGED <<verified, verified_packages, script_settings, cog_added,
                           remote_status, data, packages, loaded, cmd,
                           package, package_info, link, idx, flag_in,
                           observed, seq, solo, fresh, snap, ncmds,
                           confirmed_at>>
       ELSE Resume(p, MkDir(packages, package_info[p].name),
                   <<Ev("mkdir", <<"packages", package_info[p].name>>, 0)>>)

\* resumes after line 304
InstallContinue(p) ==
    /\ pc[p] = "file_report"
    /\ Resume(p, packages, <<>>)

\* resumes inside line 311 or 313 and runs to the end (line 325)
InstallActivate(p) ==
    /\ pc[p] \in {"load", "reload"}
    /\ \E ok \in BOOLEAN :
           LET a == EndActivation(pc[p], ExtensionName(".", package_info[p].name),
                                  loaded, ok)
           IN
           /\ pc' = [pc EXCEPT ![p] = "idle"]
           /\ loaded' = a.loaded
           /\ trace' = [trace EXCEPT ![p] = @ \o a.events]
           /\ outcome' = [outcome EXCEPT ![p] = a.outcome]
           /\ snap' = IF a.outcome = "installed"
                      THEN [snap EXCEPT ![p] = TakeSnap(p, packages)]
                      ELSE snap
    /\ UNCHANGED <<verified, verified_packages, script_settings, cog_added,
                   remote_status, data, packages, cmd, package, package_info,
                   link, idx, flag_in, observed, seq, solo, fresh,
                   ncmds, confirmed_at>>

----------------------------------------------------------------------------
(* uninstall, lines 166-178 *)

\* shutil.rmtree of one package directory
RmTree(fs, name) == [k \in DOMAIN fs \ {name} |-> fs[k]]

Uninstall(p, arg) ==
    LET name == Join(arg)
        ext == ExtensionName("/", name)
        rm == Ev("rmtree", <<"packages", name>>, 0)
    IN
    /\ Begin(p, "uninstall", arg)
    /\ observed' = [observed EXCEPT ![p] = 0]
    /\ UNCHANGED <<verified, verified_packages, script_settings, cog_added, remote_status,
                   data, confirmed_at>>
    /\ IF name \notin DOMAIN packages
       THEN \* line 173 raises
            /\ EndAtOnce(p, "FileNotFoundError", <<rm>>)
                    /\ UNCHANGED <<packages, loaded>>
       ELSE /\ packages' = RmTree(packages, name)
            /\ IF ext \notin loaded
               THEN \* line 175 raises ExtensionNotLoaded
                    /\ EndAtOnce(p, "ExtensionNotLoaded",
                                 <<rm, Ev("unload", <<ext>>, 1)>>)
                    /\ UNCHANGED loaded
               ELSE /\ loaded' = loaded \ {ext}
                    /\ EndAtOnce(p, "removed",
                                 <<rm, Ev("unload", <<ext>>, 0),
                                   Ev("sync", <<>>, 0),
                                   Ev("send", <<"removed">>, 0)>>)

----------------------------------------------------------------------------
(* verify, lines 187-191 *)

\* verify flipping the flag instead of setting it
VerifyToggle(p) ==
    /\ Begin(p, "verify", <<>>)
    /\ verified' = ~verified
    /\ confirmed_at' = ncmds + 1
    /\ EndAtOnce(p, "ok", <<Ev("add_reaction", <<>>, 0)>>)
    /\ observed' = [observed EXCEPT ![p] = 0]
    /\ UNCHANGED <<verified_packages, script_settings, cog_added, remote_status, data,
                   packages, loaded>>

Verify(p) ==
    /\ Begin(p, "verify", <<>>)
    /\ verified' = TRUE
    /\ confirmed_at' = ncmds + 1
    /\ EndAtOnce(p, "ok", <<Ev("add_reaction", <<>>, 0)>>)
    /\ observed' = [observed EXCEPT ![p] = 0]
    /\ UNCHANGED <<verified_packages, script_settings, cog_added, remote_status, data,
                   packages, loaded>>

----------------------------------------------------------------------------
(* view, lines 107-152, with check_version (lines 83-105) and fetch_package *)
(* (lines 57-72); update-dp, lines 327-346                                  *)

ViewArgs == {<<"DexPack">>, <<"widgets">>}

\* lines 85-105.  Line 85 reads `script_settings`; the request's answer is
\* bound to `request`, line 92 reads the unbound name `r`
check_version ==
    IF ~script_settings.bound
    THEN [raised |-> "NameError", events |-> <<>>]
    ELSE IF ~script_settings.outdated_warnings
    THEN [raised |-> "none", events |-> <<>>]
    ELSE [raised |-> "NameError",
          events |-> <<Ev("get", <<"Dotsian", "DexPack", "pyproject.toml">>,
                          OK)>>]

\* lines 67-72: None when the manifest file does not exist
FetchPackage(name, fs) ==
    IF name \in DOMAIN fs
    THEN [found |-> TRUE, info |-> fs[name]]
    ELSE [found |-> FALSE, info |-> NoInfo]

View(p, arg) ==
    LET version == check_version
        name == Join(arg)
        info == FetchPackage(name, data)
        read == Ev("isfile", <<"data", name>>, 0)
    IN
    /\ Begin(p, "view", arg)
    /\ observed' = [observed EXCEPT ![p] = 0]
    /\ UNCHANGED <<verified, verified_packages, script_settings, cog_added,
                   remote_status, data, packages, loaded, confirmed_at>>
    /\ IF version.raised # "none"
       THEN \* line 129 raises
            EndAtOnce(p, version.raised, version.events)
       ELSE IF name = "DexPack"
       THEN \* line 152 with the default embed
            EndAtOnce(p, "shown",
                      <<Ev("send", <<"embed", "DexPack - ALPHA">>, 0)>>)
       ELSE IF ~info.found
       THEN \* lines 137-139
            EndAtOnce(p, "not_found",
                      <<read, Ev("send", <<"no_package">>, 0)>>)
       ELSE \* lines 141-152: the embed is titled with the argument
            EndAtOnce(p, "shown",
                      <<read, Ev("read", <<"data", name>>, 0),
                        Ev("send", <<"embed", name>>, 0)>>)

\* lines 334-346: the answer is bound to `request`, line 338 reads the
\* unbound name `r`
UpdateDp(p) ==
    /\ Begin(p, "update-dp", <<>>)
    /\ observed' = [observed EXCEPT ![p] = 0]
    /\ UNCHANGED <<verified, verified_packages, script_settings, cog_added, remote_status,
                   data, packages, loaded, confirmed_at>>
    /\ EndAtOnce(p, "NameError",
                 <<Ev("get", <<"Dotsian", "DexPack", "installer.py">>, OK)>>)

\* what line 355 ends in: the module is not in the bot's table of extensions
\* (the cog was registered without load_extension) and reload_extension
\* raises ExtensionNotLoaded at once; or the module text is executed afresh
\* (lines 32-33, then line 358), verify_packages raises at line 46, and the
\* host puts the old module back with its globals as they were and raises
\* ExtensionFailed
ReloadResults == {"ExtensionFailed", "ExtensionNotLoaded"}

\* lines 353-356
ReloadDp(p) ==
    LET ext == dir_type \o ".core.dexpack" IN
    /\ Begin(p, "reload-dp", <<>>)
    /\ observed' = [observed EXCEPT ![p] = 0]
    /\ UNCHANGED <<verified, verified_packages, script_settings, cog_added,
                   remote_status, data, packages, loaded, confirmed_at>>
    \* line 355 raises; line 356 is not reached
    /\ \E result \in ReloadResults :
           EndAtOnce(p, result, <<Ev("reload", <<ext>>, 2)>>)

----------------------------------------------------------------------------
(* The program *)

Init ==
    /\ verified = FALSE
    /\ verified_packages = verify_packages(EmptyRegistry).verified_packages
    /\ script_settings \in Settings
    /\ cog_added \in BOOLEAN
    /\ remote_status \in [ListedFiles -> StatusCodes]
    /\ data = EmptyFs
    /\ packages = EmptyFs
    /\ loaded = {}
    /\ pc = [p \in Slots |-> "idle"]
    /\ cmd = [p \in Slots |-> "none"]
    /\ package = [p \in Slots |-> <<>>]
    /\ package_info = [p \in Slots |-> NoInfo]
    /\ link = [p \in Slots |-> NoLink]
    /\ idx = [p \in Slots |-> 1]
    /\ trace = [p \in Slots |-> <<>>]
    /\ outcome = [p \in Slots |-> "none"]
    /\ flag_in = [p \in Slots |-> FALSE]
    /\ observed = [p \in Slots |-> 0]
    /\ seq = [p \in Slots |-> 0]
    /\ solo = [p \in Slots |-> FALSE]
    /\ fresh = [p \in Slots |-> FALSE]
    /\ snap = [p \in Slots |-> NoSnap]
    /\ ncmds = 0
    /\ confirmed_at = 0

Next ==
    \/ \E p \in Slots, arg \in InstallArgs : InstallStart(p, arg)
    \/ \E p \in Slots : InstallFiles(p)
    \/ \E p \in Slots : InstallContinue(p)
    \/ \E p \in Slots : InstallActivate(p)
    \/ \E p \in Slots, arg \in UninstallArgs : Uninstall(p, arg)
    \/ \E p \in Slots : Verify(p)
    \/ \E p \in Slots, arg \in ViewArgs : View(p, arg)
    \/ \E p \in Slots : UpdateDp(p)
    \/ \E p \in Slots : ReloadDp(p)

Spec == Init /\ [][Next]_vars

----------------------------------------------------------------------------
(* The same program with the time a file request takes made visible.        *)
(* request_get is requests.get (line 16), a synchronous call: the handler   *)
(* that makes it does not return to the event loop until the answer is      *)
(* there, so while one handler is inside the call (pc = "get") the single   *)
(* thread runs no other handler.  A handler enters the call of line 297     *)
(* when it resumes after line 282 or after line 304; the requests that      *)
(* follow in the same stretch are made in the step that takes the answer.   *)
(* The awaits of lines 311 and 313 give the loop back: a handler suspended  *)
(* there blocks nobody.                                                     *)

\* some handler is inside request_get
NetBlocked == \E q \in Slots : pc[q] = "get"

\* resumes after line 282: lines 291-292, then into the call of line 297
NetEnterFirst(p) ==
    /\ ~NetBlocked
    /\ pc[p] = "installing"
    /\ IF Escapes(MkDirError(packages, package_info[p].name))
       THEN InstallFiles(p)
       ELSE /\ pc' = [pc EXCEPT ![p] = "get"]
            /\ packages' = MkDir(packages, package_info[p].name)
            /\ trace' = [trace EXCEPT ![p] = @ \o
                   <<Ev("mkdir", <<"packages", package_info[p].name>>, 0)>>]
            /\ UNCHANGED <<verified, verified_packages, script_settings, cog_added,
                           remote_status, data, loaded, cmd, package,
                           package_info, link, idx, outcome, flag_in,
                           observed, seq, solo, fresh, snap, ncmds,
                           confirmed_at>>

\* resumes after line 304 with a file left: into the call of line 297
NetEnterNext(p) ==
    /\ ~NetBlocked
    /\ pc[p] = "file_report"
    /\ idx[p] <= Len(package_info[p].files)
    /\ pc' = [pc EXCEPT ![p] = "get"]
    /\ UNCHANGED <<verified, verified_packages, script_settings, cog_added, remote_status,
                   data, packages, loaded, cmd, package, package_info, link,
                   idx, trace, outcome, flag_in, observed, seq, solo, fresh,
                   snap, ncmds, confirmed_at>>

\* resumes after line 304 with no file left: lines 310-313
NetFinish(p) ==
    /\ ~NetBlocked
    /\ pc[p] = "file_report"
    /\ idx[p] > Len(package_info[p].files)
    /\ Resume(p, packages, <<>>)

\* the answer of the call arrives: the handler goes on from line 299
NetReturn(p) ==
    /\ pc[p] = "get"
    /\ Resume(p, packages, <<>>)

\* a command handler is started by the event loop
NetInstallStart(p, arg) == ~NetBlocked /\ InstallStart(p, arg)

NetUninstall(p, arg) == ~NetBlocked /\ Uninstall(p, arg)

NetVerify(p) == ~NetBlocked /\ Verify(p)

NetView(p, arg) == ~NetBlocked /\ View(p, arg)

NetUpdateDp(p) == ~NetBlocked /\ UpdateDp(p)

NetReloadDp(p) == ~NetBlocked /\ ReloadDp(p)

\* resumes inside line 311 or 313
NetActivate(p) == ~NetBlocked /\ InstallActivate(p)

NextNet ==
    \/ \E p \in Slots, arg \in InstallArgs : NetInstallStart(p, arg)
    \/ \E p \in Slots : NetEnterFirst(p)
    \/ \E p \in Slots : NetEnterNext(p)
    \/ \E p \in Slots : NetFinish(p)
    \/ \E p \in Slots : NetReturn(p)
    \/ \E p \in Slots, arg \in UninstallArgs : NetUninstall(p, arg)
    \/ \E p \in Slots : NetVerify(p)
    \/ \E p \in Slots, arg \in ViewArgs : NetView(p, arg)
    \/ \E p \in Slots : NetUpdateDp(p)
    \/ \E p \in Slots : NetReloadDp(p)
    \/ \E p \in Slots : NetActivate(p)

SpecNet == Init /\ [][NextNet]_vars

TypeOK ==
    /\ verified \in BOOLEAN
    /\ ncmds \in 0..MaxCommands
    /\ \A p \in Slots :
           pc[p] \in {"idle", "installing", "file_report", "load", "reload",
                      "get"}
    /\ script_settings \in Settings
    /\ verified_packages = EmptyRegistry

----------------------------------------------------------------------------
(* Vocabulary of the properties *)

\* a URL-shaped reference that names an owner and a repository
SafeModeOn == script_settings.bound /\ script_settings.safe_mode

SafeModeOff == script_settings.bound /\ ~script_settings.safe_mode

IsRaw(arg) ==
    StartsWith(arg, PREFIX) /\ Len(Split(Remove(arg, PREFIX), "/")) >= 2

Installs == {p \in Slots : cmd[p] = "install"}

Ops(tr, op) == {i \in DOMAIN tr : tr[i].op = op}

\* requests for a listed file (owner, repository, package name, file)
FileGets(tr) == {i \in Ops(tr, "get") : Len(tr[i].path) = 4}

ManifestGets(tr) == {i \in Ops(tr, "get") : Len(tr[i].path) = 3}

FileWrites(tr) == {i \in Ops(tr, "write") : tr[i].path[1] = "packages"}

ManifestWrites(tr) == {i \in Ops(tr, "write") : tr[i].path[1] = "data"}

Activations(tr) == Ops(tr, "load") \cup Ops(tr, "reload")

FailureReports(tr) ==
    {i \in Ops(tr, "send") : tr[i].path[1] = "file_failed"}

----------------------------------------------------------------------------
(* C1: with safe mode on, an install of a raw (owner, repository) reference *)
(* that finds the confirmation flag false ends blocked, having made no      *)
(* remote request and written no file.                                      *)

C1_BlockedBeforeAnyFetch ==
    \A p \in Installs :
        (SafeModeOn /\ IsRaw(package[p]) /\ ~flag_in[p]) =>
            /\ pc[p] = "idle"
            /\ outcome[p] = "blocked"
            /\ Ops(trace[p], "get") = {}
            /\ Ops(trace[p], "write") = {}
            /\ Ops(trace[p], "mkdir") = {}

C1_Witness ==
    \E p \in Installs :
        /\ SafeModeOn /\ IsRaw(package[p]) /\ ~flag_in[p]
        /\ outcome[p] = "blocked"
        /\ Ops(trace[p], "send") # {}

----------------------------------------------------------------------------
(* C2: with safe mode on, whatever number of verify commands came before,   *)
(* an install of a raw reference passes the gate exactly when the flag is   *)
(* set, and the flag is clear once it has run: the next raw install with no *)
(* verify in between is blocked.                                            *)

C2_ConfirmationIsOneShot ==
    [][\A p \in Slots :
          (seq'[p] # seq[p] /\ cmd'[p] = "install" /\ SafeModeOn
              /\ IsRaw(package'[p])) =>
              /\ (outcome'[p] # "blocked") <=> verified
              /\ ~verified']_vars

\* verify, install passes, the install right after it is blocked
C2_Witness ==
    \E p, q \in Installs :
        /\ SafeModeOn /\ IsRaw(package[p]) /\ IsRaw(package[q])
        /\ confirmed_at # 0
        /\ seq[p] = confirmed_at + 1 /\ seq[q] = seq[p] + 1
        /\ observed[p] = confirmed_at
        /\ outcome[p] # "blocked"
        /\ outcome[q] = "blocked"

----------------------------------------------------------------------------
(* C3: however install handlers interleave, no two of them see the flag set *)
(* by the same verify: one confirmation lets at most one install through.   *)

C3_AtMostOneObserver ==
    \A p, q \in Installs :
        (p # q /\ observed[p] # 0 /\ observed[q] # 0) =>
            observed[p] # observed[q]

\* one install suspended past the gate on a confirmation, a second raw
\* install invoked meanwhile with no verify since, and blocked
C3_Witness ==
    \E p, q \in Installs :
        /\ p # q /\ SafeModeOn
        /\ IsRaw(package[p]) /\ IsRaw(package[q])
        /\ pc[p] # "idle" /\ observed[p] = confirmed_at /\ confirmed_at # 0
        /\ seq[q] > seq[p] /\ ~solo[q]
        /\ outcome[q] = "blocked"

----------------------------------------------------------------------------
(* C4: an install invoked while the flag is set leaves the flag clear when  *)
(* it has ended, whatever its outcome (no verify having run since).         *)

C4_FlagClearedByEveryInstall ==
    \A p \in Installs :
        (pc[p] = "idle" /\ flag_in[p] /\ confirmed_at < seq[p]) => ~verified

----------------------------------------------------------------------------
(* C5: an install of a bare name that verified.txt lists passes the gate    *)
(* without confirmation and requests the manifest of the repository that    *)
(* verified.txt names for it.                                               *)

\* (owner, repository) that the lines of VerifiedTxt give for a name
CanonicalRef(name) ==
    IF name = "widgets" THEN <<"dotsian", "widgets">> ELSE NoLink

C5_RegistryNameIsFetched ==
    \A p \in Installs :
        (SafeModeOn /\ ~flag_in[p] /\ ~StartsWith(package[p], PREFIX)
            /\ CanonicalRef(Join(package[p])) # NoLink) =>
            /\ outcome[p] \notin {"blocked", "invalid", "IndexError"}
            /\ \E i \in ManifestGets(trace[p]) :
                   trace[p][i].path =
                       ManifestUrl(CanonicalRef(Join(package[p])))

----------------------------------------------------------------------------
(* C6: when an install that got past the platform check ends, every one of  *)
(* the N listed files was requested once, each of the K failed downloads    *)
(* has one report naming the file and its status code, the N-K others are   *)
(* in the package directory with the downloaded content, and load was       *)
(* requested.                                                               *)

FilesOf(tr, S) == {tr[i].path[4] : i \in S}

FailedGets(tr) == {i \in FileGets(tr) : tr[i].code # OK}

LoopPost(tr, info, lnk, fs) ==
    LET good == FileGets(tr) \ FailedGets(tr)
    IN
    /\ Cardinality(FileGets(tr)) = Len(info.files)
    /\ FilesOf(tr, FileGets(tr)) = {info.files[i] : i \in DOMAIN info.files}
    /\ Cardinality(FailureReports(tr)) = Cardinality(FailedGets(tr))
    /\ \A i \in FailedGets(tr) :
           /\ i + 1 \in FailureReports(tr)
           /\ tr[i + 1].path[2] = tr[i].path[4]
           /\ tr[i + 1].code = tr[i].code
    /\ Cardinality(FileWrites(tr)) = Len(info.files) - Cardinality(FailedGets(tr))
    /\ \A i \in good :
           /\ info.name \in DOMAIN fs
           /\ tr[i].path[4] \in DOMAIN fs[info.name]
           /\ fs[info.name][tr[i].path[4]] =
                  <<lnk[1], lnk[2], info.name, tr[i].path[4]>>
    /\ Ops(tr, "load") # {}

C6_PartialFailureStillInstalls ==
    [][\A p \in Slots :
          (pc[p] # "idle" /\ pc'[p] = "idle") =>
              LoopPost(trace'[p], package_info[p], link[p], packages')]_vars

----------------------------------------------------------------------------
(* C7 as stated: an install that ends on the unsupported platform has       *)
(* written no file at all to local storage, made no directory, requested no *)
(* listed file and no load or reload.                                       *)

C7_UnsupportedWritesNothing ==
    \A p \in Installs :
        outcome[p] = "unsupported" =>
            /\ Ops(trace[p], "write") = {}
            /\ Ops(trace[p], "mkdir") = {}
            /\ FileGets(trace[p]) = {}
            /\ Activations(trace[p]) = {}

(* C7 amended: when the fetched manifest does not list the host, the        *)
(* install ends unsupported with no directory made, no listed file          *)
(* requested or written and no load or reload; the one file it has written  *)
(* is the local manifest file, persisted before the platform check.         *)

FetchedUnsupported(p) ==
    \E i \in ManifestGets(trace[p]) :
        /\ trace[p][i].code = OK
        /\ ~(dir_type \in
               b64decode(GetManifest(<<trace[p][i].path[1],
                                       trace[p][i].path[2]>>).content).supported)

C7_UnsupportedWritesOnlyManifest ==
    \A p \in Installs :
        FetchedUnsupported(p) =>
            /\ pc[p] = "idle"
            /\ outcome[p] = "unsupported"
            /\ Ops(trace[p], "mkdir") = {}
            /\ FileGets(trace[p]) = {}
            /\ FileWrites(trace[p]) = {}
            /\ Activations(trace[p]) = {}
            /\ Cardinality(ManifestWrites(trace[p])) = 1
            /\ Ops(trace[p], "write") = ManifestWrites(trace[p])

C7_Witness ==
    \E p \in Installs :
        /\ FetchedUnsupported(p)
        /\ outcome[p] = "unsupported"
        /\ "gadgets" \in DOMAIN data
        /\ "gadgets" \notin DOMAIN packages

----------------------------------------------------------------------------
(* C8: an install of a reference, run alone from a clean state and ended    *)
(* with its success message, followed by a second install of the same       *)
(* reference (at most a verify in between, the second one getting past the  *)
(* gate, and the module itself reloading without error): the second ends   *)
(* with the success message through reload, the existing directory raises   *)
(* nothing, and the manifest file and the directory's files and contents    *)
(* are those the first install left.                                        *)

InSuccession(p, q) ==
    /\ p # q
    /\ package[p] = package[q]
    /\ snap[p].taken
    /\ solo[q]
    /\ \/ seq[q] = seq[p] + 1
       \/ seq[q] = seq[p] + 2 /\ confirmed_at = seq[p] + 1
    /\ ncmds = seq[q]
    /\ pc[q] = "idle"
    /\ outcome[q] # "blocked"
    /\ \A i \in Ops(trace[q], "reload") : trace[q][i].code = 0

C8_ReinstallIsIdempotent ==
    \A p, q \in Installs :
        InSuccession(p, q) =>
            /\ outcome[q] = "installed"
            /\ Ops(trace[q], "reload") # {}
            /\ \A i \in Ops(trace[q], "load") : trace[q][i].code = 1
            /\ \A i \in Ops(trace[q], "mkdir") : trace[q][i].code = 0
            /\ link[q][2] \in DOMAIN data
            /\ data[link[q][2]] = snap[p].manifest
            /\ package_info[q].name \in DOMAIN packages
            /\ packages[package_info[q].name] = snap[p].files

\* both installs ended, one listed file installed and one failed each time
C8_Witness ==
    \E p, q \in Installs :
        /\ InSuccession(p, q)
        /\ outcome[q] = "installed"
        /\ Cardinality(FileWrites(trace[q])) = 1
        /\ Cardinality(FailedGets(trace[q])) = 1
        /\ Cardinality(DOMAIN snap[p].files) = 1

----------------------------------------------------------------------------
(* C9: an uninstall of a name that has no package directory reports "not    *)
(* found" to the caller instead of raising, and changes neither the         *)
(* directories, nor the manifest files, nor the loaded extensions.          *)

C9_UninstallMissingIsReported ==
    [][\A p \in Slots :
          (seq'[p] # seq[p] /\ cmd'[p] = "uninstall"
              /\ Join(package'[p]) \notin DOMAIN packages) =>
              /\ Ops(trace'[p], "send") # {}
              /\ outcome'[p] = "not_found"
              /\ packages' = packages
              /\ data' = data
              /\ loaded' = loaded]_vars

----------------------------------------------------------------------------
(* C10: in the calls of one install, the manifest file is written before    *)
(* any listed file is requested, every listed file is written before load   *)
(* or reload is requested, and by the time load is requested every listed   *)
(* file has been requested.                                                 *)

C10_InstallOrdering ==
    \A p \in Installs :
        LET tr == trace[p] IN
        /\ \A i \in FileGets(tr) : \E m \in ManifestWrites(tr) : m < i
        /\ \A i \in FileWrites(tr) : \A j \in Activations(tr) : i < j
        /\ \A j \in Activations(tr) :
               Cardinality({i \in FileGets(tr) : i < j}) =
                   Len(package_info[p].files)

\* an ended install that wrote a listed file, had a failed one, and loaded
C10_Witness ==
    \E p \in Installs :
        /\ pc[p] = "idle"
        /\ ManifestWrites(trace[p]) # {}
        /\ FileWrites(trace[p]) # {}
        /\ FailedGets(trace[p]) # {}
        /\ Activations(trace[p]) # {}

----------------------------------------------------------------------------
(* C11: when the manifest request is answered with a status other than ok,  *)
(* the install ends with the fetch-failed report carrying that status code; *)
(* the request is made once, and no manifest file is written, no directory  *)
(* made, no listed file requested, no load or reload requested.             *)

ManifestRefused(p) ==
    \E i \in ManifestGets(trace[p]) : trace[p][i].code # OK

C11_FetchFailureStopsInstall ==
    \A p \in Installs :
        ManifestRefused(p) =>
            /\ pc[p] = "idle"
            /\ outcome[p] = "fetch_failed"
            /\ Cardinality(Ops(trace[p], "get")) = 1
            /\ \E i \in ManifestGets(trace[p]), j \in Ops(trace[p], "send") :
                   /\ trace[p][j].path = <<"fetch_failed">>
                   /\ trace[p][j].code = trace[p][i].code
            /\ Ops(trace[p], "write") = {}
            /\ Ops(trace[p], "mkdir") = {}
            /\ Activations(trace[p]) = {}

\* a refused install of a repository whose manifest file exists from before
C11_Witness ==
    \E p \in Installs :
        /\ ManifestRefused(p)
        /\ outcome[p] = "fetch_failed"
        /\ data # EmptyFs

----------------------------------------------------------------------------
(* C12: view makes no remote request: it shows the metadata of the local    *)
(* manifest file when there is one and reports that the package does not    *)
(* exist when there is none.                                                *)

C12_ViewIsOffline ==
    \A p \in Slots :
        cmd[p] = "view" =>
            /\ Ops(trace[p], "get") = {}
            /\ outcome[p] \in {"shown", "not_found"}

----------------------------------------------------------------------------
(* C13: when an uninstall completes for a package that is installed and     *)
(* loaded, its directory no longer exists, its manifest file is deleted and *)
(* its extension is no longer loaded.                                       *)

UninstallBegins(p) == seq'[p] # seq[p] /\ cmd'[p] = "uninstall"

C13_UninstallRemovesAllParts ==
    [][\A p \in Slots :
          (/\ UninstallBegins(p)
           /\ Join(package'[p]) \in DOMAIN packages
           /\ Join(package'[p]) \in DOMAIN data
           /\ ExtensionName(".", Join(package'[p])) \in loaded) =>
              /\ Join(package'[p]) \notin DOMAIN packages'
              /\ Join(package'[p]) \notin DOMAIN data'
              /\ ExtensionName(".", Join(package'[p])) \notin loaded']_vars

----------------------------------------------------------------------------
(* C14: an install requests reload (is inside it, or has its result)        *)
(* exactly when its load reported already-loaded, directly after that load; *)
(* when that reload is done the install ends with the success message, and  *)
(* after a load that succeeded no reload is requested.                      *)

LoadsWith(tr, code) == {i \in Ops(tr, "load") : tr[i].code = code}

C14_ReloadIffAlreadyLoaded ==
    \A p \in Installs :
        LET tr == trace[p] IN
        /\ (Ops(tr, "reload") # {} \/ pc[p] = "reload")
               <=> (LoadsWith(tr, 1) # {})
        /\ \A j \in Ops(tr, "reload") :
               /\ j - 1 \in LoadsWith(tr, 1)
               /\ tr[j].path = tr[j - 1].path
        /\ \A i \in LoadsWith(tr, 1) :
               \/ pc[p] = "reload" /\ i = Len(tr)
               \/ /\ pc[p] = "idle"
                  /\ i + 1 \in Ops(tr, "reload")
                  /\ tr[i + 1].code = 0 =>
                         /\ outcome[p] = "installed"
                         /\ tr[Len(tr)] = Ev("edit", <<"installed">>, 0)
        /\ LoadsWith(tr, 0) # {} =>
               Ops(tr, "reload") = {} /\ pc[p] # "reload"

\* a second install of a loaded package, another command having run while
\* it was inside the reload
C14_Witness ==
    \E p \in Installs :
        /\ LoadsWith(trace[p], 1) # {}
        /\ Ops(trace[p], "reload") # {}
        /\ outcome[p] = "installed"
        /\ ncmds > seq[p]

----------------------------------------------------------------------------
(* C15: with safe mode off no install ends blocked, and every install of a  *)
(* raw reference that names an owner and a repository requests the          *)
(* manifest, whatever the registry holds and whatever the flag was.         *)

C15_SafeModeOffNeverBlocks ==
    SafeModeOff =>
        \A p \in Installs :
            /\ outcome[p] # "blocked"
            /\ IsRaw(package[p]) => ManifestGets(trace[p]) # {}

\* a raw reference whose repository name verified.txt lists, installed with
\* the flag unset
C15_Witness ==
    \E p \in Installs :
        /\ SafeModeOff
        /\ IsRaw(package[p])
        /\ ~flag_in[p]
        /\ CanonicalRef(package[p][4]) # NoLink
        /\ ManifestGets(trace[p]) # {}

----------------------------------------------------------------------------
(* C16: an install of a URL whose repository name is a name verified.txt    *)
(* lists is not resolved through the registry: with safe mode on and the    *)
(* flag unset it is blocked before any request, and when it goes on, every  *)
(* request goes to the owner and repository of the URL and none to the      *)
(* repository verified.txt names.                                           *)

RawRegistryNamed(p) ==
    /\ IsRaw(package[p])
    /\ CanonicalRef(package[p][4]) # NoLink

C16_UrlBypassesRegistry ==
    \A p \in Installs :
        RawRegistryNamed(p) =>
            /\ (SafeModeOn /\ ~flag_in[p]) =>
                   /\ outcome[p] = "blocked"
                   /\ Ops(trace[p], "get") = {}
            /\ (SafeModeOff \/ (SafeModeOn /\ flag_in[p])) =>
                   ManifestGets(trace[p]) # {}
            /\ \A i \in ManifestGets(trace[p]) :
                   /\ trace[p][i].path =
                          ManifestUrl(<<package[p][2], package[p][4]>>)
                   /\ trace[p][i].path #
                          ManifestUrl(CanonicalRef(package[p][4]))
            /\ \A i \in Ops(trace[p], "get") :
                   /\ trace[p][i].path[1] = package[p][2]
                   /\ trace[p][i].path[2] = package[p][4]

\* confirmed, then installed from the URL's repository with its files
C16_Witness ==
    \E p \in Installs :
        /\ RawRegistryNamed(p)
        /\ SafeModeOn
        /\ flag_in[p]
        /\ FileGets(trace[p]) # {}
        /\ outcome[p] = "installed"

----------------------------------------------------------------------------
(* C17: the step of an install that ends blocked changes neither the flag,  *)
(* nor the registry, nor the manifest files, nor the package directories,   *)
(* nor the loaded extensions.                                               *)

C17_BlockedChangesNothing ==
    [][\A p \in Slots :
          (seq'[p] # seq[p] /\ cmd'[p] = "install"
              /\ outcome'[p] = "blocked") =>
              /\ verified' = verified
              /\ verified_packages' = verified_packages
              /\ data' = data
              /\ packages' = packages
              /\ loaded' = loaded]_vars

\* blocked with a manifest file, a directory and an extension in place, and
\* none of them of the blocked reference
C17_Witness ==
    \E p \in Installs :
        /\ outcome[p] = "blocked"
        /\ package[p][4] \notin DOMAIN data
        /\ data # EmptyFs
        /\ packages # EmptyFs
        /\ loaded # {}
        /\ ~verified

----------------------------------------------------------------------------
(* C18: an uninstall of a package whose directory exists and whose          *)
(* extension is not loaded removes the directory and ends with the removal  *)
(* message, not with an exception.                                          *)

C18_UninstallUnloadedIsTolerated ==
    [][\A p \in Slots :
          (/\ UninstallBegins(p)
           /\ Join(package'[p]) \in DOMAIN packages
           /\ ExtensionName(".", Join(package'[p])) \notin loaded) =>
              /\ Join(package'[p]) \notin DOMAIN packages'
              /\ outcome'[p] = "removed"
              /\ \E i \in Ops(trace'[p], "send") :
                     trace'[p][i].path = <<"removed">>]_vars

----------------------------------------------------------------------------
(* C20: in every step the registry stays as it was built; the flag goes     *)
(* from false to true only in a step that runs verify and from true to      *)
(* false only in a step that starts an install; a step that runs view,      *)
(* uninstall or update-dp leaves the flag as it is, and update-dp never     *)
(* ends at the gate.                                                        *)

Begins(p, c) == seq'[p] # seq[p] /\ cmd'[p] = c

C20_FlagAndRegistryFrame ==
    [][/\ verified_packages' = verified_packages
       /\ (~verified /\ verified') => \E p \in Slots : Begins(p, "verify")
       /\ (verified /\ ~verified') => \E p \in Slots : Begins(p, "install")
       /\ \A p \in Slots :
              (\E c \in {"view", "uninstall", "update-dp"} : Begins(p, c)) =>
                  /\ verified' = verified
                  /\ outcome'[p] # "blocked"]_vars

\* verify set the flag, update-dp ran with the flag set and left it set, and
\* an install then took it back
C20_Witness ==
    \E p, q \in Slots :
        /\ cmd[q] = "update-dp"
        /\ flag_in[q]
        /\ seq[q] > confirmed_at
        /\ cmd[p] = "install"
        /\ seq[p] > seq[q]
        /\ flag_in[p]
        /\ ~verified

----------------------------------------------------------------------------
(* C19: whenever the handler of one install is inside a file request,       *)
(* another slot that has a command to run or a handler to resume can take   *)
(* a step.                                                                  *)

\* any step of slot q
NetStep(q) ==
    \/ \E arg \in InstallArgs : NetInstallStart(q, arg)
    \/ NetEnterFirst(q)
    \/ NetEnterNext(q)
    \/ NetFinish(q)
    \/ \E arg \in UninstallArgs : NetUninstall(q, arg)
    \/ NetVerify(q)
    \/ \E arg \in ViewArgs : NetView(q, arg)
    \/ NetUpdateDp(q)
    \/ NetReloadDp(q)
    \/ NetActivate(q)

C19_OthersRunDuringRequest ==
    \A p \in Installs :
        \A q \in Slots \ {p} :
            (pc[p] = "get" /\ (pc[q] # "idle" \/ ncmds < MaxCommands)) =>
                ENABLED NetStep(q)

====
